---- MODULE Spec2Model ----
(***************************************************************************)
(* State-machine model of transcribe.py: the orchestrator main() and the   *)
(* pipeline components Downloader, Transcriber and Summarizer, acting on   *)
(* an abstract file system.  External collaborators (argparse, ffmpeg,     *)
(* yt-dlp, the whisper and ollama servers, the gemini CLI, the desktop     *)
(* notifier, the user's interrupt key) are nondeterministic choices.       *)
(***************************************************************************)
EXTENDS Integers, Sequences, FiniteSets, TLC

\* ---------------------------------------------------------------- paths --
\* A path is directory + file name; the file name is stem + tag + extension
\* ("talk" + "_timestamps" + "json").  Directories: "tmp" is the directory
\* made by tempfile.mkdtemp, "ext" a user directory outside the workspace,
\* "ws" the workspace  output_directory / slug.
Exts == {"mp3", "wav"}

NoPath == [dir |-> "", stem |-> "", tag |-> "", ext |-> ""]

MkPath(d, s, t, e) == [dir |-> d, stem |-> s, tag |-> t, ext |-> e]

\* The base name every input of the model carries, and its slug.
InputStem == "Talk"

slugify(s) == IF s = "Talk" THEN "talk" ELSE s

\* Path.with_suffix
with_suffix(p, e) == [p EXCEPT !.ext = e]

\* audio_path.parent / f"{base_name}.txt"
TxtPath(audio) == MkPath(audio.dir, audio.stem, "", "txt")

\* audio_path.parent / f"{base_name}_timestamps.json"
JsonPath(audio) == MkPath(audio.dir, audio.stem, "_timestamps", "json")

\* slug_dir / f"{slug_base}_summary.md"
SummaryPath(slug) == MkPath("ws", slug, "_summary", "md")

\* ---------------------------------------------------------- file system --
\* The file system is a function from the existing paths to a content tag.
Exists(f, p) == p \in DOMAIN f

WriteFile(f, p, c) == [q \in (DOMAIN f) \cup {p} |-> IF q = p THEN c ELSE f[q]]

\* open(p).read(): the content, nothing if the file cannot be opened.
ReadText(f, p) == IF p \in DOMAIN f THEN f[p] ELSE ""

Unlink(f, p) == [q \in (DOMAIN f) \ {p} |-> f[q]]

\* shutil.move of a file: os.rename; renaming a file onto itself is a no-op.
MoveFile_Copy(f, src, dst) ==
    IF src = dst THEN f
    ELSE [q \in (DOMAIN f) \cup {dst} |-> IF q = dst THEN f[src] ELSE f[q]]

MoveFile(f, src, dst) ==
    IF src = dst THEN f
    ELSE [q \in ((DOMAIN f) \ {src}) \cup {dst} |-> IF q = dst THEN f[src] ELSE f[q]]

VARIABLES
    env,              \* what the run finds on the machine: config file, workspace
    pc,               \* position of the process in main()
    exitCode,         \* exit status of the process, -1 while it runs
    args,             \* the command line as argparse sees it
    config,           \* the configuration in effect
    fs,               \* files: path -> content tag
    dirs,             \* existing directories among "tmp", "ext", "ws"
    temp_download_dir,\* "tmp" once mkdtemp ran, "" otherwise (None)
    audio_path,       \* main(): audio_path
    final_audio_path, \* main(): final_audio_path
    wav_path,         \* transcribe(): wav_path
    transcript_path,  \* main(): transcript_path
    summary_path,     \* main(): summary_path, NoPath while unassigned
    exc,              \* exception in flight inside transcribe(): finally pending
    log,              \* set of messages written by logging / print warnings
    notes,            \* set of notification titles handed to notify()
    report,           \* lines of the final report printed so far
    stages,           \* sequence of pipeline stages started, in order
    hist              \* history record: outcomes of the stages of this run

vars == <<env, pc, exitCode, args, config, fs, dirs, temp_download_dir, audio_path,
          final_audio_path, wav_path, transcript_path, summary_path, exc,
          log, notes, report, stages, hist>>

\* -------------------------------------------------------- configuration --
\* DEFAULT_CONFIG, the values abstracted to tags.
DEFAULT_CONFIG ==
    [whisper_url |-> "default_whisper", ollama_url |-> "default_ollama",
     summarize_model |-> "qwen2.5", output_directory |-> "output/",
     downloader_args |-> "default_args"]

\* dict.update: key-wise, the override wins.
Merge_DefaultWins(d, o) ==
    [k \in (DOMAIN d) \cup (DOMAIN o) |-> IF k \in DOMAIN d THEN d[k] ELSE o[k]]

Merge(d, o) == [k \in (DOMAIN d) \cup (DOMAIN o) |-> IF k \in DOMAIN o THEN o[k] ELSE d[k]]

\* JSON objects a transcribe_config.json of the model may hold.
Overrides ==
    { [summarize_model |-> "gemini"],
      [summarize_model |-> "Gemini"],
      [output_directory |-> "/abs/out/"],
      [whisper_url |-> "my_whisper", summarize_model |-> "llama3"],
      [ollama_url |-> "my_ollama", downloader_args |-> "my_args"] }

\* The file ./transcribe_config.json: absent, not JSON, JSON that is no
\* object (a number, a string), or a JSON object.
ConfigFiles ==
    { [state |-> s, obj |-> DEFAULT_CONFIG] : s \in {"absent", "bad_json", "not_object"} }
    \cup { [state |-> "object", obj |-> o] : o \in Overrides }

\* The file ~/.config/transcribe/transcribe_config.json: absent or an object.
HomeConfigFiles ==
    { [state |-> "absent", obj |-> DEFAULT_CONFIG],
      [state |-> "object", obj |-> [output_directory |-> "fallback_output/"]] }

\* json.load / dict.update raise an exception load_config() does not catch:
\* it catches json.JSONDecodeError only.
LoadConfigRaises_NoCatch(file) == file.state \in {"not_object", "bad_json"}

LoadConfigRaises(file) == file.state = "not_object"

\* load_config(), for a file json.load and dict.update accept or that is absent
\* or undecodable.
load_config(file) ==
    IF file.state = "object" THEN Merge(DEFAULT_CONFIG, file.obj) ELSE DEFAULT_CONFIG

\* str.lower() on the model names of the model.
lower(m) == IF m = "Gemini" THEN "gemini" ELSE m

\* Path.is_absolute of Path(config["output_directory"])
IsAbsolute(d) == d = "/abs/out/"

\* ------------------------------------------------------------ the start --
\* Command lines: one argparse rejects (exit status 2), --help, and the
\* accepted ones: a URL, or a local path (in a user directory or already in
\* the workspace, existing or not), with or without --no-summary.
Argv ==
    { [parse |-> p, input_kind |-> "none", input_dir |-> "", input_exists |-> FALSE,
       input_ext |-> "", no_summary |-> FALSE] : p \in {"usage", "help"} }
    \cup
    { [parse |-> "ok", input_kind |-> "url", input_dir |-> "", input_exists |-> FALSE,
       input_ext |-> "", no_summary |-> ns] : ns \in BOOLEAN }
    \cup
    { [parse |-> "ok", input_kind |-> "local", input_dir |-> d, input_exists |-> x,
       input_ext |-> e, no_summary |-> ns] :
         d \in {"ext", "ws"}, x \in BOOLEAN, e \in Exts, ns \in BOOLEAN }

\* The workspace before the run: absent, an empty directory, or holding the
\* outputs of an earlier run.
Envs == { [config_file |-> c, home_config |-> h, ws |-> w] :
            c \in ConfigFiles, h \in HomeConfigFiles,
            w \in {"absent", "empty", "stale"} }

LocalInput(a) == MkPath(a.input_dir, InputStem, "", a.input_ext)

StaleFiles ==
    LET a == MkPath("ws", InputStem, "", "mp3") IN
    {TxtPath(a), JsonPath(a), SummaryPath(slugify(InputStem))}

InitFs(a, e) ==
    LET input == IF a.input_kind = "local" /\ a.input_exists THEN {LocalInput(a)} ELSE {}
        old   == IF e.ws = "stale" THEN StaleFiles ELSE {}
    IN [q \in input \cup old |-> IF q \in input THEN "audio" ELSE "old"]

NoHist ==
    [parsed |-> FALSE, fatal |-> "none", download |-> "none", acquired |-> "none",
     convert |-> "none", upload |-> "none", save |-> "none", transcribe |-> "none",
     summarized |-> "none", interrupted |-> FALSE, interrupted_at |-> "", downloaded |-> <<>>, posts |-> <<>>, tool_runs |-> <<>>,
     ffmpeg_runs |-> <<>>, created |-> {}, removed |-> {}, moved |-> {}, madeDirs |-> {}]

Init ==
    /\ args \in Argv
    /\ env \in Envs
    \* a local file inside the workspace needs the workspace to exist
    /\ (args.input_kind = "local" /\ args.input_dir = "ws" /\ args.input_exists)
          => env.ws # "absent"
    /\ pc = "parse_args"
    /\ exitCode = -1
    /\ config = DEFAULT_CONFIG
    /\ fs = InitFs(args, env)
    /\ dirs = {"ext"} \cup (IF env.ws = "absent" THEN {} ELSE {"ws"})
    /\ temp_download_dir = ""
    /\ audio_path = NoPath
    /\ final_audio_path = NoPath
    /\ wav_path = NoPath
    /\ transcript_path = NoPath
    /\ summary_path = NoPath
    /\ exc = "none"
    /\ log = {}
    /\ notes = {}
    /\ report = <<>>
    /\ stages = <<>>
    /\ hist = NoHist

\* ------------------------------------------------------------- helpers --
\* notify(): the title is handed to the notifier; a failure of the notifier
\* is caught and only logged.
NotifyWarning(delivered) == IF delivered THEN {} ELSE {"Notification failed"}

\* The outermost handlers of main(): except KeyboardInterrupt: sys.exit(130),
\* except Exception: sys.exit(1).
TopLevelExit_NoExit(kind) == IF kind = "KeyboardInterrupt" THEN 130 ELSE 0

TopLevelExit(kind) == IF kind = "KeyboardInterrupt" THEN 130 ELSE 1

\* Which stage's failure path ends with sys.exit(1): the dependency check,
\* the download and the transcription do, summarization does not ("Don't
\* exit").
StageFailureIsFatal_NotTranscribe(stage) == stage \in {"check_dependencies", "acquire"}

StageFailureIsFatal_AlsoSummarize(stage) ==
    stage \in {"check_dependencies", "acquire", "transcribe", "summarize"}

StageFailureIsFatal_NotDependencies(stage) == stage \in {"acquire", "transcribe"}

StageFailureIsFatal(stage) == stage \in {"check_dependencies", "acquire", "transcribe"}

\* "except Exception" in a stage's handler: it catches an Exception, not a
\* KeyboardInterrupt (a BaseException).
ExceptExceptionCatches_BareExcept(kind) == kind \in {"Exception", "KeyboardInterrupt"}

ExceptExceptionCatches(kind) == kind = "Exception"

\* An exception no stage handler catches reaches except Exception of main().
Unexpected ==
    /\ pc' = "exited"
    /\ exitCode' = TopLevelExit("Exception")
    /\ log' = log \cup {"An unexpected error occurred"}
    /\ notes' = notes

\* ------------------------------------------------------------ main() ----
\* parser.parse_args() and setup_logging(): argparse ends the process itself
\* on a usage error (status 2) and on --help (status 0).
ParseArgs ==
    /\ pc = "parse_args"
    /\ IF args.parse = "usage" THEN pc' = "exited" /\ exitCode' = 2
       ELSE IF args.parse = "help" THEN pc' = "exited" /\ exitCode' = 0
       ELSE pc' = "check_dependencies" /\ exitCode' = exitCode
    /\ hist' = [hist EXCEPT !.parsed = (args.parse = "ok")]
    /\ UNCHANGED <<env, args, config, fs, dirs, temp_download_dir, audio_path,
                   final_audio_path, wav_path, transcript_path, summary_path,
                   exc, log, notes, report, stages>>

\* check_dependencies(): shutil.which("ffmpeg") is the environment's answer.
CheckDependencies ==
    /\ pc = "check_dependencies"
    /\ stages' = Append(stages, "check_dependencies")
    /\ \E ffmpeg \in BOOLEAN :
         IF ffmpeg
         THEN /\ pc' = "load_config"
              /\ UNCHANGED <<exitCode, log, hist>>
         ELSE /\ IF StageFailureIsFatal("check_dependencies")
                 THEN pc' = "exited" /\ exitCode' = 1
                 ELSE pc' = "load_config" /\ exitCode' = exitCode
              /\ log' = log \cup {"FFmpeg not found in PATH"}
              /\ hist' = [hist EXCEPT !.fatal = "dependency"]
    /\ UNCHANGED <<env, args, config, fs, dirs, temp_download_dir, audio_path,
                   final_audio_path, wav_path, transcript_path, summary_path,
                   exc, notes, report>>

\* config = load_config(): only Path(CONFIG_FILE_NAME), the file in the
\* current working directory, is looked for.  A file that is JSON but no
\* object makes dict.update raise, which only the outermost handler catches.
LoadConfig ==
    /\ pc = "load_config"
    /\ stages' = Append(stages, "load_config")
    /\ IF LoadConfigRaises(env.config_file)
       THEN /\ Unexpected
            /\ hist' = [hist EXCEPT !.fatal = "unexpected"]
            /\ UNCHANGED config
       ELSE /\ config' = load_config(env.config_file)
            /\ log' = log \cup {"Loaded configuration."} \cup
                      (IF env.config_file.state = "bad_json"
                       THEN {"Warning: Failed to parse config file"} ELSE {})
            /\ pc' = "acquire"
            /\ UNCHANGED <<exitCode, notes, hist>>
    /\ UNCHANGED <<env, args, fs, dirs, temp_download_dir, audio_path,
                   final_audio_path, wav_path, transcript_path, summary_path,
                   exc, report>>

\* if not audio_path.exists()
LocalInputMissing_NoCheck(f, p) == FALSE

LocalInputMissing(f, p) == ~Exists(f, p)

\* ------------------------------------------------- Downloader.download --
\* Files the download engine may leave in the destination directory: the
\* audio under the expected base name with either extension (the original and
\* the converted file), and a file of another base name.
DownloadPool ==
    {MkPath("tmp", InputStem, "", e) : e \in Exts} \cup {MkPath("tmp", "Other", "", "mp3")}

\* What the engine leaves: files of the pool, listed in the order of their
\* modification times (the last is the most recently modified).
DownloadResults ==
    {left \in UNION {[1..n -> DownloadPool] : n \in 0..Cardinality(DownloadPool)} :
        \A i, j \in 1..Len(left) : i # j => left[i] # left[j]}

\* output_dir.glob(f"{base_name}.*"): positions of the files matching the
\* base name of ydl.prepare_filename(info).
glob_matches(left, base_name) ==
    {i \in 1..Len(left) : left[i].stem = base_name /\ left[i].tag = ""}

\* found_files.sort(key=st_mtime, reverse=True); final_path = found_files[0]
most_recent_Oldest(left, found) == left[CHOOSE i \in found : \A j \in found : i <= j]

most_recent(left, found) == left[CHOOSE i \in found : \A j \in found : j <= i]

\* The destination directory after the engine ran.
AfterDownload(f, left, final_path) ==
    [q \in (DOMAIN f) \cup {left[i] : i \in 1..Len(left)} |->
        IF q = final_path THEN "audio"
        ELSE IF \E i \in 1..Len(left) : left[i] = q THEN "other" ELSE f[q]]

\* Step 1, URL: tempfile.mkdtemp, Downloader.download, and the except-clause
\* around them.  The download engine raises, or returns having left files;
\* download() raises FileNotFoundError if none matches the base name and
\* returns the most recently modified match otherwise.
AcquireUrl ==
    /\ pc = "acquire"
    /\ args.input_kind = "url"
    /\ stages' = Append(stages, "acquire")
    /\ temp_download_dir' = "tmp"
    /\ dirs' = dirs \cup {"tmp"}
    /\ \E engine \in {"returns", "raises"}, left \in DownloadResults, delivered \in BOOLEAN :
         LET found   == glob_matches(left, InputStem)
             outcome == IF engine = "raises" THEN "engine_error"
                        ELSE IF found = {} THEN "no_file" ELSE "ok"
         IN
         /\ engine = "raises" => left = <<>>
         /\ IF outcome = "ok"
            THEN /\ fs' = AfterDownload(fs, left, most_recent(left, found))
                 /\ audio_path' = most_recent(left, found)
                 /\ pc' = "workspace"
                 /\ hist' = [hist EXCEPT !.download = outcome, !.acquired = "ok",
                                         !.downloaded = left]
                 /\ UNCHANGED <<exitCode, log, notes>>
            ELSE /\ fs' = AfterDownload(fs, left, NoPath)
                 /\ log' = log \cup {"Download failed"} \cup NotifyWarning(delivered)
                 /\ notes' = notes \cup {"Download Failed"}
                 /\ pc' = "exited"
                 /\ exitCode' = IF StageFailureIsFatal("acquire") THEN 1
                                ELSE TopLevelExit("Exception")
                 /\ hist' = [hist EXCEPT !.download = outcome, !.acquired = "failed",
                                         !.fatal = "download", !.downloaded = left]
                 /\ UNCHANGED audio_path
    /\ UNCHANGED <<env, args, config, final_audio_path, wav_path, transcript_path,
                   summary_path, exc, report>>

\* Step 1, local path: Path(input_arg).resolve() and the existence check.
AcquireLocal ==
    /\ pc = "acquire"
    /\ args.input_kind = "local"
    /\ stages' = Append(stages, "acquire")
    /\ audio_path' = LocalInput(args)
    /\ IF LocalInputMissing(fs, LocalInput(args))
       THEN /\ log' = log \cup {"File not found"}
            /\ pc' = "exited"
            /\ exitCode' = 1
            /\ hist' = [hist EXCEPT !.acquired = "failed", !.fatal = "file_not_found"]
       ELSE /\ pc' = "workspace"
            /\ hist' = [hist EXCEPT !.acquired = "ok"]
            /\ UNCHANGED <<exitCode, log>>
    /\ UNCHANGED <<env, args, config, fs, dirs, temp_download_dir, final_audio_path,
                   wav_path, transcript_path, summary_path, exc, notes, report>>

\* shutil.rmtree
RmTree(f, d) == [q \in {x \in DOMAIN f : x.dir # d} |-> f[q]]

\* Step 2: slug_dir = output_base_dir / slugify(stem); mkdir unless it exists;
\* final_audio_path = slug_dir / original_filename.
CreateWorkspace ==
    /\ pc = "workspace"
    /\ stages' = Append(stages, "workspace")
    /\ final_audio_path' = MkPath("ws", audio_path.stem, "", audio_path.ext)
    /\ IF "ws" \in dirs
       THEN /\ log' = log \cup {"Directory already exists. Merging/Overwriting."}
            /\ pc' = "place"
            /\ UNCHANGED <<exitCode, notes, dirs, hist>>
       ELSE \E mkdir \in {"ok", "oserror"} :
              IF mkdir = "ok"
              THEN /\ dirs' = dirs \cup {"ws"}
                   /\ log' = log \cup {"Created workspace"}
                   /\ pc' = "place"
                   /\ hist' = [hist EXCEPT !.madeDirs = @ \cup {"ws"}]
                   /\ UNCHANGED <<exitCode, notes>>
              ELSE /\ Unexpected
                   /\ hist' = [hist EXCEPT !.fatal = "unexpected"]
                   /\ UNCHANGED dirs
    /\ UNCHANGED <<env, args, config, fs, temp_download_dir, audio_path, wav_path,
                   transcript_path, summary_path, exc, report>>

\* audio_path.parent != slug_dir compares a resolved, absolute path with
\* slug_dir as configured: they can be equal only if output_directory is
\* absolute.
ParentIsSlugDir(audio) == audio.dir = "ws" /\ IsAbsolute(config.output_directory)

\* Move the audio file into the workspace: a download is moved and its
\* temporary directory removed; a local file is moved unless its parent is
\* slug_dir.  shutil.move raises if the source is missing or the move fails.
Place ==
    /\ pc = "place"
    /\ stages' = Append(stages, "place")
    /\ \E mv \in {"ok", "oserror"} :
         IF temp_download_dir = "" /\ ParentIsSlugDir(audio_path)
         THEN /\ final_audio_path' = audio_path
              /\ pc' = "convert"
              /\ UNCHANGED <<exitCode, fs, dirs, log, notes, hist>>
         ELSE IF mv = "ok" /\ Exists(fs, audio_path)
         THEN /\ fs' = IF temp_download_dir = ""
                       THEN MoveFile(fs, audio_path, final_audio_path)
                       ELSE RmTree(MoveFile(fs, audio_path, final_audio_path), temp_download_dir)
              /\ dirs' = IF temp_download_dir = "" THEN dirs ELSE dirs \ {temp_download_dir}
              /\ hist' = [hist EXCEPT !.moved = @ \cup ({audio_path} \ {final_audio_path})]
              /\ pc' = "convert"
              /\ UNCHANGED <<exitCode, log, notes, final_audio_path>>
         ELSE /\ Unexpected
              /\ hist' = [hist EXCEPT !.fatal = "unexpected"]
              /\ UNCHANGED <<fs, dirs, final_audio_path>>
    /\ UNCHANGED <<env, args, config, temp_download_dir, audio_path, wav_path,
                   transcript_path, summary_path, exc, report>>

\* ------------------------------------------------ Transcriber.transcribe --
\* _convert_to_wav_16k: ffmpeg -y -i input ... output.  ffmpeg writes the
\* waveform, or fails leaving nothing, or fails after it began to write the
\* output.  A failure (CalledProcessError) leaves transcribe() before its
\* try statement is entered.
ffmpeg_cmd(input_path) ==
    [program |-> "ffmpeg", overwrite |-> "-y", input |-> input_path,
     ar |-> "16000", ac |-> "1", output |-> with_suffix(input_path, "wav")]

Convert ==
    /\ pc = "convert"
    /\ stages' = Append(stages, "transcribe")
    /\ LET output_path == with_suffix(final_audio_path, "wav") IN
       \E outcome \in {"ok", "fail_clean", "fail_partial"} :
         /\ fs' = IF outcome = "ok" THEN WriteFile(fs, output_path, "wav")
                  ELSE IF outcome = "fail_partial" THEN WriteFile(fs, output_path, "partial")
                  ELSE fs
         /\ hist' = [hist EXCEPT !.convert = outcome,
                                 !.ffmpeg_runs = Append(@, ffmpeg_cmd(final_audio_path)),
                                 !.transcribe = IF outcome = "ok" THEN "running" ELSE "raised",
                                 !.created = IF outcome = "fail_clean" THEN @
                                             ELSE @ \cup {output_path}]
         /\ IF outcome = "ok"
            THEN wav_path' = output_path /\ pc' = "upload" /\ exc' = "none"
            ELSE wav_path' = wav_path /\ pc' = "transcribe_except" /\ exc' = "Exception"
    /\ UNCHANGED <<env, args, config, exitCode, dirs, temp_download_dir, audio_path,
                   final_audio_path, transcript_path, summary_path, log, notes, report>>

\* requests.post raising (transport) or response.raise_for_status() raising
\* (non-success status).
UploadRaises_NoStatusCheck(outcome) == outcome = "transport"

UploadRaises(outcome) == outcome # "ok"

\* Step 2 of transcribe(): upload the waveform to the whisper server.
Upload ==
    /\ pc = "upload"
    /\ \E outcome \in {"ok", "transport", "status"} :
         /\ hist' = [hist EXCEPT !.upload = outcome]
         /\ IF UploadRaises(outcome)
            THEN exc' = "Exception" /\ pc' = "finally"
            ELSE exc' = "none" /\ pc' = "save"
    /\ UNCHANGED <<env, args, config, exitCode, fs, dirs, temp_download_dir, audio_path,
                   final_audio_path, wav_path, transcript_path, summary_path, log,
                   notes, report, stages>>

\* Step 3 of transcribe(): write <base>.txt and <base>_timestamps.json beside
\* the audio file; opening the text file may fail.
Save ==
    /\ pc = "save"
    /\ \E outcome \in {"ok", "oserror"} :
         /\ fs' = IF outcome = "ok"
                  THEN WriteFile(WriteFile(fs, TxtPath(final_audio_path), "text"),
                                 JsonPath(final_audio_path), "segments")
                  ELSE fs
         /\ hist' = [hist EXCEPT !.save = outcome,
                                 !.created = IF outcome = "ok"
                                             THEN @ \cup {TxtPath(final_audio_path),
                                                          JsonPath(final_audio_path)}
                                             ELSE @]
         /\ exc' = IF outcome = "ok" THEN "none" ELSE "Exception"
    /\ pc' = "finally"
    /\ UNCHANGED <<env, args, config, exitCode, dirs, temp_download_dir, audio_path,
                   final_audio_path, wav_path, transcript_path, summary_path, log,
                   notes, report, stages>>

\* finally: if wav_path.exists() and wav_path != audio_path: wav_path.unlink()
CleanupWav_OnlyOnSuccess(f, wav, audio) ==
    IF exc = "none" /\ Exists(f, wav) /\ wav # audio THEN Unlink(f, wav) ELSE f

CleanupWav_NoInputGuard(f, wav, audio) ==
    IF Exists(f, wav) THEN Unlink(f, wav) ELSE f

CleanupWav(f, wav, audio) ==
    IF Exists(f, wav) /\ wav # audio THEN Unlink(f, wav) ELSE f

\* The finally clause of transcribe(), then the return or the re-raise.
Finally ==
    /\ pc = "finally"
    /\ fs' = CleanupWav(fs, wav_path, final_audio_path)
    /\ hist' = [hist EXCEPT !.transcribe = IF exc = "none" THEN "returned" ELSE "raised",
                            !.removed = @ \cup ((DOMAIN fs) \ (DOMAIN fs'))]
    /\ IF exc = "none"
       THEN transcript_path' = TxtPath(final_audio_path) /\ pc' = "summary_stage"
       ELSE transcript_path' = transcript_path /\ pc' = "transcribe_except"
    /\ UNCHANGED <<env, args, config, exitCode, dirs, temp_download_dir, audio_path,
                   final_audio_path, wav_path, summary_path, exc, log, notes, report,
                   stages>>

\* Step 3 of main(): what follows an exception out of transcribe().  An
\* Exception is logged, notified and ends the run; a KeyboardInterrupt is not
\* an Exception and reaches the outermost handler.
TranscribeExcept ==
    /\ pc = "transcribe_except"
    /\ IF ~ExceptExceptionCatches(exc)
       THEN /\ log' = log \cup {"Process interrupted by user."}
            /\ pc' = "exited"
            /\ exitCode' = TopLevelExit("KeyboardInterrupt")
            /\ UNCHANGED <<notes, hist>>
       ELSE \E delivered \in BOOLEAN :
            /\ log' = log \cup {"Transcription failed"} \cup NotifyWarning(delivered)
            /\ notes' = notes \cup {"Transcription Failed"}
            /\ hist' = [hist EXCEPT !.fatal = "transcribe"]
            /\ IF StageFailureIsFatal("transcribe")
               THEN pc' = "exited" /\ exitCode' = 1
               ELSE pc' = "summary_stage" /\ exitCode' = exitCode
    /\ exc' = "none"
    /\ UNCHANGED <<env, args, config, fs, dirs, temp_download_dir, audio_path,
                   final_audio_path, wav_path, transcript_path, summary_path, report,
                   stages>>

\* ---------------------------------------------------- Summarizer.summarize
\* if self.model.lower() == "gemini": the external-tool strategy.
UsesCli_CaseSensitive(model) == model = "gemini"

UsesCli(model) == lower(model) = "gemini"

\* _summarize_ollama: the JSON body of the one requests.post; the prompt is
\* the system prompt, the "Transcript:" label and the transcript text.
ollama_payload(model, transcript_text) ==
    [model |-> model,
     prompt |-> <<"SYSTEM_PROMPT", "Transcript:", transcript_text>>,
     stream |-> FALSE]

\* _summarize_gemini: the one subprocess.run; text=True and no encoding
\* argument, so the text encoding is the locale's.
gemini_run(transcript_text) ==
    [cmd |-> <<"gemini", "-p", "SYSTEM_PROMPT">>, input |-> transcript_text,
     text |-> TRUE, capture_output |-> TRUE, check |-> TRUE, encoding |-> "not set"]

\* The HTTP requests a call of summarize() issues: none if the transcript
\* cannot be read or the tool strategy is taken, one otherwise.
http_posts(outcome, model, transcript_text) ==
    IF outcome # "read_error" /\ ~UsesCli(model)
    THEN <<ollama_payload(model, transcript_text)>> ELSE <<>>

\* The processes it starts: the tool, once, unless shutil.which("gemini")
\* finds none.
tool_runs(outcome, model, transcript_text) ==
    IF outcome \notin {"read_error", "tool_not_found"} /\ UsesCli(model)
    THEN <<gemini_run(transcript_text)>> ELSE <<>>

\* What a call of summarize() can meet: the transcript cannot be read; with
\* the model name "gemini" in any letter case the CLI is missing from PATH,
\* exits non-zero or succeeds; otherwise the HTTP POST fails in transport,
\* answers a non-success status, answers JSON whose "response" is null (the
\* write of None raises after the file was opened for writing), or succeeds.
SummarizeOutcomes(f, transcript, model) ==
    IF ~Exists(f, transcript) THEN {"read_error"}
    ELSE IF UsesCli(model) THEN {"tool_not_found", "tool_nonzero", "ok"}
    ELSE {"http_transport", "http_status", "null_response", "ok"}

\* The file system after the call: only a successful call writes the summary.
summarize_fs_WritesErrorBody(f, outcome, output_path) ==
    IF outcome \in {"ok", "http_status", "tool_nonzero"} THEN WriteFile(f, output_path, "summary")
    ELSE IF outcome = "null_response" THEN WriteFile(f, output_path, "empty")
    ELSE f

summarize_fs(f, outcome, output_path) ==
    IF outcome = "ok" THEN WriteFile(f, output_path, "summary")
    ELSE IF outcome = "null_response" THEN WriteFile(f, output_path, "empty")
    ELSE f

\* if not args.no_summary: the summarizer is skipped when the flag is set.
SkipsSummary_FlagIgnored == FALSE

SkipsSummary == args.no_summary

\* Step 4 of main(): skip, or assign summary_path and call the summarizer
\* inside try / except Exception.
SummaryStage ==
    /\ pc = "summary_stage"
    /\ \E delivered \in BOOLEAN :
       IF SkipsSummary
       THEN /\ log' = log \cup {"Skipping summary generation."} \cup NotifyWarning(delivered)
            /\ notes' = notes \cup {"Transcription Complete"}
            /\ hist' = [hist EXCEPT !.summarized = "skipped"]
            /\ pc' = "report"
            /\ UNCHANGED <<exitCode, fs, summary_path, stages>>
       ELSE LET path == SummaryPath(slugify(audio_path.stem)) IN
            \E outcome \in SummarizeOutcomes(fs, transcript_path, config.summarize_model) :
            /\ summary_path' = path
            /\ stages' = Append(stages, "summarize")
            /\ fs' = summarize_fs(fs, outcome, path)
            /\ hist' = [hist EXCEPT !.summarized = outcome,
                                    !.posts = @ \o http_posts(outcome, config.summarize_model,
                                                              ReadText(fs, transcript_path)),
                                    !.tool_runs = @ \o tool_runs(outcome, config.summarize_model,
                                                                 ReadText(fs, transcript_path)),
                                    !.created = @ \cup ((DOMAIN fs') \ (DOMAIN fs))
                                                  \cup {q \in DOMAIN fs : fs'[q] # fs[q]}]
            /\ IF outcome = "ok"
               THEN /\ log' = log \cup {"Summary saved"} \cup NotifyWarning(delivered)
                    /\ notes' = notes \cup {"Pipeline Complete"}
                    /\ pc' = "report"
                    /\ UNCHANGED exitCode
               ELSE /\ log' = log \cup {"Summarization failed"} \cup NotifyWarning(delivered)
                    /\ notes' = notes \cup {"Summarization Failed"}
                    /\ IF StageFailureIsFatal("summarize")
                       THEN pc' = "exited" /\ exitCode' = 1
                       ELSE pc' = "report" /\ exitCode' = exitCode
    /\ UNCHANGED <<env, args, config, dirs, temp_download_dir, audio_path,
                   final_audio_path, wav_path, transcript_path, exc, report>>

\* if not args.no_summary and 'summary_path' in locals()
PrintsSummaryLine == ~SkipsSummary /\ summary_path # NoPath

\* The final report; main() returns and the process ends with status 0.
\* Printing transcript_path.name raises if the name was never bound.
Report ==
    /\ pc = "report"
    /\ IF transcript_path = NoPath
       THEN /\ report' = <<"SUCCESS", "Workspace", "Audio">>
            /\ Unexpected
       ELSE /\ report' = <<"SUCCESS", "Workspace", "Audio", "Transcript">> \o
                         (IF PrintsSummaryLine THEN <<"Summary">> ELSE <<>>)
            /\ pc' = "exited"
            /\ exitCode' = 0
            /\ UNCHANGED <<log, notes>>
    /\ UNCHANGED <<env, args, config, fs, dirs, temp_download_dir, audio_path,
                   final_audio_path, wav_path, transcript_path, summary_path, exc,
                   stages, hist>>

\* ------------------------------------------------------------ interrupt --
\* Ctrl-C raises KeyboardInterrupt where main() stands.  Outside the try
\* statements of the stages it goes straight to except KeyboardInterrupt.
InterruptMain ==
    /\ \/ pc \in {"check_dependencies", "load_config", "workspace", "place", "report"}
       \/ pc = "acquire" /\ args.input_kind = "local"
       \/ pc = "summary_stage" /\ SkipsSummary
    /\ pc' = "exited"
    /\ exitCode' = TopLevelExit("KeyboardInterrupt")
    /\ log' = log \cup {"Process interrupted by user."}
    /\ hist' = [hist EXCEPT !.interrupted = TRUE, !.interrupted_at = pc]
    /\ UNCHANGED <<env, args, config, fs, dirs, temp_download_dir, audio_path,
                   final_audio_path, wav_path, transcript_path, summary_path, exc,
                   notes, report, stages>>

\* Ctrl-C during the download: the temporary directory is made; the
\* interrupt passes the except Exception clause around the download.
InterruptDownload ==
    /\ pc = "acquire" /\ args.input_kind = "url"
    /\ temp_download_dir' = "tmp"
    /\ dirs' = dirs \cup {"tmp"}
    /\ pc' = "exited"
    /\ IF ExceptExceptionCatches("KeyboardInterrupt")
       THEN /\ log' = log \cup {"Download failed"}
            /\ notes' = notes \cup {"Download Failed"}
            /\ exitCode' = 1
       ELSE /\ log' = log \cup {"Process interrupted by user."}
            /\ notes' = notes
            /\ exitCode' = TopLevelExit("KeyboardInterrupt")
    /\ hist' = [hist EXCEPT !.interrupted = TRUE, !.interrupted_at = pc]
    /\ UNCHANGED <<env, args, config, fs, audio_path, final_audio_path, wav_path,
                   transcript_path, summary_path, exc, report, stages>>

\* Ctrl-C inside transcribe(): during ffmpeg (which may have begun its output)
\* the interrupt leaves transcribe() at once; between the upload and the end
\* of the saving the finally clause runs first.
InterruptTranscribe ==
    /\ pc \in {"convert", "upload", "save"}
    /\ exc' = "KeyboardInterrupt"
    /\ IF pc = "convert"
       THEN \E partial \in BOOLEAN :
              LET output_path == with_suffix(final_audio_path, "wav") IN
              /\ pc' = "transcribe_except"
              /\ fs' = IF partial THEN WriteFile(fs, output_path, "partial") ELSE fs
              /\ hist' = [hist EXCEPT !.interrupted = TRUE, !.interrupted_at = pc,
                                      !.transcribe = "raised",
                                      !.created = IF partial THEN @ \cup {output_path} ELSE @]
       ELSE /\ pc' = "finally"
            /\ fs' = fs
            /\ hist' = [hist EXCEPT !.interrupted = TRUE, !.interrupted_at = pc]
    /\ UNCHANGED <<env, args, config, exitCode, dirs, temp_download_dir, audio_path,
                   final_audio_path, wav_path, transcript_path, summary_path, log,
                   notes, report, stages>>

\* Ctrl-C while the summarizer runs: summary_path is assigned; the interrupt
\* passes the except Exception clause of step 4.
InterruptSummarize ==
    /\ pc = "summary_stage" /\ ~SkipsSummary
    /\ summary_path' = SummaryPath(slugify(audio_path.stem))
    /\ stages' = Append(stages, "summarize")
    /\ IF ExceptExceptionCatches("KeyboardInterrupt")
       THEN /\ log' = log \cup {"Summarization failed"}
            /\ notes' = notes \cup {"Summarization Failed"}
            /\ pc' = "report"
            /\ exitCode' = exitCode
       ELSE /\ log' = log \cup {"Process interrupted by user."}
            /\ notes' = notes
            /\ pc' = "exited"
            /\ exitCode' = TopLevelExit("KeyboardInterrupt")
    /\ hist' = [hist EXCEPT !.interrupted = TRUE, !.interrupted_at = pc]
    /\ UNCHANGED <<env, args, config, fs, dirs, temp_download_dir, audio_path,
                   final_audio_path, wav_path, transcript_path, exc, report>>

Next ==
    \/ ParseArgs
    \/ CheckDependencies
    \/ LoadConfig
    \/ AcquireUrl
    \/ AcquireLocal
    \/ CreateWorkspace
    \/ Place
    \/ Convert
    \/ Upload
    \/ Save
    \/ Finally
    \/ TranscribeExcept
    \/ SummaryStage
    \/ Report
    \/ InterruptMain
    \/ InterruptDownload
    \/ InterruptTranscribe
    \/ InterruptSummarize

Spec == Init /\ [][Next]_vars

\* ---------------------------------------------------------- type check --
TypeOK ==
    /\ pc \in {"parse_args", "check_dependencies", "load_config", "acquire", "workspace",
               "place", "convert", "upload", "save", "finally", "transcribe_except",
               "summary_stage", "report", "exited"}
    /\ exitCode \in {-1, 0, 1, 2, 130}
    /\ (pc = "exited") <=> (exitCode # -1)
    /\ exc \in {"none", "Exception", "KeyboardInterrupt"}

\* ====================================================== properties ======
\* Facts of a run the properties speak about, read off the environment's
\* answers rather than off the handlers' decisions.
Exited == pc = "exited"

\* The acquisition met a failure: the engine raised, no downloaded file was
\* found, or the local path does not exist.
AcquisitionFailed ==
    \/ hist.download \in {"engine_error", "no_file"}
    \/ /\ args.input_kind = "local" /\ ~args.input_exists
       /\ \E i \in 1..Len(stages) : stages[i] = "acquire"

\* The transcription met a failure: ffmpeg exited non-zero, or the upload
\* failed in transport or with a non-success status.
TranscriptionFailed ==
    \/ hist.convert \in {"fail_clean", "fail_partial"}
    \/ hist.upload \in {"transport", "status"}

\* The summarizer failed in one of the ways the specification lists.
SummarizerFailed ==
    hist.summarized \in {"tool_not_found", "tool_nonzero", "http_transport", "http_status"}

Started(stage) == \E i \in 1..Len(stages) : stages[i] = stage

\* The waveform path transcribe() derives from the audio path it is given.
DerivedWav == with_suffix(final_audio_path, "wav")

\* transcribe() has returned or raised.
TranscribeOver == hist.transcribe \in {"returned", "raised"}

\* The files of the workspace are the ones it held before the run.
WorkspaceAsBefore ==
    /\ ("ws" \in dirs) <=> (env.ws # "absent")
    /\ {q \in DOMAIN fs : q.dir = "ws"} = {q \in DOMAIN InitFs(args, env) : q.dir = "ws"}
    /\ \A q \in DOMAIN fs : q.dir = "ws" => fs[q] = InitFs(args, env)[q]

\* C1: the final report shows the Summary line only if summarization was
\* requested and the summarizer returned successfully.
C1_SummaryLineOnlyOnSuccess ==
    (\E i \in 1..Len(report) : report[i] = "Summary")
        => (~args.no_summary /\ hist.summarized = "ok")

\* C2: after acquisition and transcription succeeded, a summarizer failure
\* (tool not found, tool non-zero exit, HTTP transport or status failure) does
\* not abort the run: it goes on to the report and, unless the user interrupts
\* it, exits with status 0; the transcript and segments files written by the
\* transcription are present and this run writes no summary file.
C2_SummarizerFailureNotFatal ==
    (hist.transcribe = "returned" /\ SummarizerFailed /\ ~hist.interrupted) =>
        /\ pc \in {"report", "exited"}
        /\ Exited => (exitCode = 0 /\ report # <<>>)
        /\ Exists(fs, TxtPath(final_audio_path))
        /\ fs[TxtPath(final_audio_path)] = "text"
        /\ Exists(fs, JsonPath(final_audio_path))
        /\ fs[JsonPath(final_audio_path)] = "segments"
        /\ summary_path \notin hist.created
        /\ Exists(fs, summary_path) => fs[summary_path] = "old"

C2_Witness ==
    /\ Exited /\ exitCode = 0
    /\ hist.summarized = "http_status"
    /\ Exists(fs, transcript_path)
    /\ ~Exists(fs, summary_path)

\* C3: a failure of the acquisition or of the transcription is terminal: no
\* later stage is started (the summarizer is never invoked), the SUCCESS
\* report is never printed and the process exits with status 1.
C3_EarlyFailureTerminal ==
    /\ AcquisitionFailed =>
          /\ Exited /\ exitCode = 1
          /\ ~Started("workspace") /\ ~Started("place") /\ ~Started("transcribe")
          /\ ~Started("summarize") /\ report = <<>>
    /\ TranscriptionFailed =>
          /\ pc \in {"finally", "transcribe_except", "exited"}
          /\ Exited => exitCode = 1
          /\ ~Started("summarize") /\ hist.summarized = "none" /\ report = <<>>

C3_Witness ==
    /\ Exited /\ exitCode = 1
    /\ hist.upload = "transport"
    /\ "Transcription Failed" \in notes

\* C4 as stated: every run exits with 0, 1 or 130; 0 exactly when acquisition
\* and transcription succeeded, 130 on interrupt, 1 on a fatal error.
C4_Original ==
    Exited =>
        /\ exitCode \in {0, 1, 130}
        /\ (exitCode = 0) <=>
              (hist.acquired = "ok" /\ hist.transcribe = "returned" /\ ~hist.interrupted)
        /\ (exitCode = 130) <=> hist.interrupted
        /\ (exitCode = 1) <=> (hist.fatal # "none" /\ ~hist.interrupted)

\* C4, amended: every run whose command line the argument parser accepts
\* exits with 0, 1 or 130: 0 exactly when acquisition and transcription both
\* succeeded and no interrupt arrived (whatever the summarization outcome),
\* 130 exactly on interrupt, 1 exactly on a fatal error (missing dependency,
\* acquisition or transcription failure, missing local file, unexpected
\* exception).
C4_ExitStatus ==
    (Exited /\ hist.parsed) =>
        /\ exitCode \in {0, 1, 130}
        /\ (exitCode = 0) <=>
              (hist.acquired = "ok" /\ hist.transcribe = "returned" /\ ~hist.interrupted)
        /\ (exitCode = 130) <=> hist.interrupted
        /\ (exitCode = 1) <=> (hist.fatal # "none" /\ ~hist.interrupted)
        /\ (hist.fatal # "none" /\ ~hist.interrupted) <=>
              \/ AcquisitionFailed \/ TranscriptionFailed \/ hist.save = "oserror"
              \/ "FFmpeg not found in PATH" \in log
              \/ "An unexpected error occurred" \in log

C4_Witness ==
    /\ Exited /\ exitCode = 1
    /\ hist.fatal = "unexpected"
    /\ hist.acquired = "ok"
    /\ Started("place")

\* C5: every fatal error is logged and handed to notify() before the process
\* exits with status 1.
C5_FatalErrorsNotified ==
    (Exited /\ exitCode = 1) => (log # {} /\ notes # {})

\* C6: once transcribe() has returned or raised, an intermediate waveform
\* file that this run created at a path other than the input path is gone.
C6_WavDeletedOnEveryPath ==
    (TranscribeOver /\ DerivedWav \in hist.created /\ DerivedWav # final_audio_path)
        => ~Exists(fs, DerivedWav)

\* C7: when the transcoder succeeded and the waveform path differs from the
\* input path, the waveform file is gone once transcribe() has returned
\* (upload and saving succeeded) or raised (the upload failed).
C7_WavDeletedAfterTranscode ==
    (hist.convert = "ok" /\ TranscribeOver /\ wav_path # final_audio_path)
        => (~Exists(fs, wav_path) /\ wav_path \in hist.removed)

C7_Witness ==
    /\ hist.convert = "ok" /\ hist.upload = "status" /\ hist.transcribe = "raised"
    /\ wav_path # final_audio_path
    /\ ~Exists(fs, wav_path)

\* C8: transcribe() never deletes its input: from the call on, also when the
\* waveform path equals the input path, the audio file exists at audio_path.
C8_InputNeverDeleted ==
    (hist.transcribe # "none")
        => (Exists(fs, final_audio_path) /\ final_audio_path \notin hist.removed)

C8_Witness ==
    /\ TranscribeOver /\ hist.convert = "ok"
    /\ wav_path = final_audio_path
    /\ pc \in {"summary_stage", "transcribe_except"}
    /\ Exists(fs, final_audio_path)

\* C9: URL input and a non-success status from the speech-to-text service:
\* the audio file is in the workspace and not in the temporary directory,
\* neither the transcript nor the segments file is created, and the process
\* exits with status 1.
C9_UrlServiceFailure ==
    (args.input_kind = "url" /\ hist.upload = "status") =>
        /\ Exited => exitCode = 1
        /\ pc \in {"finally", "transcribe_except", "exited"}
        /\ final_audio_path.dir = "ws" /\ Exists(fs, final_audio_path)
        /\ \A q \in DOMAIN fs : q.dir # "tmp"
        /\ TxtPath(final_audio_path) \notin hist.created
        /\ JsonPath(final_audio_path) \notin hist.created
        /\ hist.save = "none"

C9_Witness ==
    /\ args.input_kind = "url" /\ hist.upload = "status"
    /\ Exited /\ exitCode = 1
    /\ ~Exists(fs, TxtPath(final_audio_path))
    /\ Exists(fs, final_audio_path)

\* C10: an acquisition failure ends the run before the workspace is touched:
\* the workspace directory is not created, nothing in it is written, changed
\* or removed, and no input file is moved.
C10_AcquisitionFailureLeavesWorkspace ==
    AcquisitionFailed =>
        /\ Exited
        /\ WorkspaceAsBefore
        /\ hist.madeDirs = {} /\ hist.moved = {} /\ hist.created = {}
        /\ ~Started("workspace")

C10_Witness ==
    /\ Exited /\ exitCode = 1
    /\ args.input_kind = "local" /\ ~args.input_exists
    /\ env.ws = "absent" /\ "ws" \notin dirs
    /\ "File not found" \in log

\* C11: a user interrupt arriving during any stage ends the process with
\* status 130: no stage's handler treats it as that stage's failure (exit
\* status 1, or a non-fatal summarization failure followed by the report).
C11_InterruptExits130 ==
    hist.interrupted =>
        /\ pc \in {"finally", "transcribe_except", "exited"}
        /\ Exited => (exitCode = 130 /\ "Process interrupted by user." \in log)
        /\ hist.fatal = "none"
        /\ report = <<>>
        /\ hist.interrupted_at \in {"acquire", "convert", "upload", "save"}
              => (notes = {} /\ "Download failed" \notin log
                             /\ "Transcription failed" \notin log)
        /\ hist.interrupted_at = "summary_stage"
              => ("Summarization Failed" \notin notes /\ "Summarization failed" \notin log)

C11_Witness ==
    /\ Exited /\ exitCode = 130
    /\ hist.interrupted_at = "upload"
    /\ hist.convert = "ok"
    /\ ~Exists(fs, wav_path) \/ wav_path = final_audio_path

\* C12: with --no-summary, once acquisition and transcription succeeded, the
\* summarizer is never invoked, no summary file is created, the report lists
\* only the Audio and Transcript lines (under its header) and the exit status
\* is 0.
C12_NoSummaryRun ==
    (args.no_summary /\ hist.transcribe = "returned" /\ ~hist.interrupted) =>
        /\ pc \in {"summary_stage", "report", "exited"}
        /\ ~Started("summarize")
        /\ hist.summarized \in {"none", "skipped"}
        /\ summary_path = NoPath
        /\ SummaryPath(slugify(audio_path.stem)) \notin hist.created
        /\ Exited => /\ exitCode = 0
                     /\ report = <<"SUCCESS", "Workspace", "Audio", "Transcript">>

C12_Witness ==
    /\ args.no_summary /\ args.input_kind = "local"
    /\ Exited /\ exitCode = 0
    /\ hist.summarized = "skipped"
    /\ Len(report) = 4
    /\ ~Exists(fs, SummaryPath(slugify(audio_path.stem)))

\* load_config() has returned.
ConfigLoaded == Started("load_config") /\ "Loaded configuration." \in log

\* C13: the override file is looked for in the current working directory and
\* then in the per-user directory, the first found wins: absent from the
\* working directory and present in the per-user directory, the per-user
\* values are in the configuration; present in the working directory, the
\* per-user file is not consulted.
C13_ConfigFallbackToUserDir ==
    ConfigLoaded =>
        /\ (env.config_file.state = "absent" /\ env.home_config.state = "object")
              => config = Merge(DEFAULT_CONFIG, env.home_config.obj)
        /\ env.config_file.state = "object"
              => config = Merge(DEFAULT_CONFIG, env.config_file.obj)

\* C14: the merge is key-wise: with an override object every default key is
\* present, with the override's value if the override has the key and the
\* default value otherwise; with no override file at either location the
\* configuration is the default one.
C14_ConfigMergeKeywise ==
    ConfigLoaded =>
        /\ env.config_file.state = "object" =>
              \A k \in DOMAIN DEFAULT_CONFIG :
                 /\ k \in DOMAIN config
                 /\ config[k] = IF k \in DOMAIN env.config_file.obj
                                THEN env.config_file.obj[k] ELSE DEFAULT_CONFIG[k]
        /\ (env.config_file.state = "absent" /\ env.home_config.state = "absent")
              => config = DEFAULT_CONFIG

C14_Witness ==
    /\ ConfigLoaded
    /\ env.config_file.state = "object"
    /\ config.whisper_url = "my_whisper" /\ config.summarize_model = "llama3"
    /\ config.ollama_url = "default_ollama" /\ config.output_directory = "output/"

\* C15: an override file that is found but is not parseable JSON does not
\* fail the resolution: a warning is emitted, the configuration is exactly
\* the default one and the run goes on into the pipeline.
C15_BadConfigFallsBack ==
    (env.config_file.state = "bad_json" /\ Started("load_config")) =>
        /\ ConfigLoaded
        /\ "Warning: Failed to parse config file" \in log
        /\ config = DEFAULT_CONFIG
        /\ "An unexpected error occurred" \in log => Started("acquire")
        /\ (Exited /\ ~Started("acquire")) => hist.interrupted_at = "acquire"

C15_Witness ==
    /\ env.config_file.state = "bad_json"
    /\ "Warning: Failed to parse config file" \in log
    /\ config = DEFAULT_CONFIG
    /\ hist.transcribe = "returned"

\* C16: for a URL input the download returns only a file that is in the
\* destination directory under the expected base name, the most recently
\* modified of the candidates (the only one, if there is one); with no
\* candidate, or when the engine raises, it fails and returns no path.
C16_DownloadPicksNewestMatch ==
    LET left == hist.downloaded IN
    (args.input_kind = "url" /\ Started("acquire")) =>
        /\ hist.download = "ok" =>
              /\ audio_path.dir = "tmp" /\ audio_path.stem = InputStem
              /\ \E i \in 1..Len(left) :
                    /\ left[i] = audio_path
                    /\ \A j \in 1..Len(left) : left[j].stem = InputStem => j <= i
              /\ pc = "workspace" => (Exists(fs, audio_path) /\ fs[audio_path] = "audio")
        /\ (\A j \in 1..Len(left) : left[j].stem # InputStem) => hist.download # "ok"
        /\ hist.download \in {"engine_error", "no_file"} =>
              (audio_path = NoPath /\ Exited /\ exitCode = 1)

C16_Witness ==
    /\ hist.download = "ok" /\ pc = "workspace"
    /\ Len(hist.downloaded) = 3
    /\ hist.downloaded[1].stem = InputStem
    /\ hist.downloaded[2] = audio_path
    /\ hist.downloaded[3].stem = "Other"

\* summarize() was called and has returned or raised.
SummarizeOver == hist.summarized \notin {"none", "skipped"}

\* C17: summarize dispatches to exactly one strategy per call: with the model
\* name "gemini" in any letter case no HTTP request is issued and the tool is
\* invoked at most once; with any other model name exactly one HTTP POST is
\* issued (no retry on failure) carrying that model name, a prompt that
\* contains the transcript text and stream disabled, and the tool is never
\* invoked.
C17_OneStrategyPerCall ==
    LET m == config.summarize_model IN
    /\ Len(hist.posts) + Len(hist.tool_runs) <= 1
    /\ (SummarizeOver /\ hist.summarized # "read_error") =>
        /\ m \in {"gemini", "Gemini"} =>
              /\ hist.posts = <<>>
              /\ Len(hist.tool_runs) <= 1
              /\ hist.summarized \in {"ok", "tool_nonzero"} => Len(hist.tool_runs) = 1
        /\ m \notin {"gemini", "Gemini"} =>
              /\ hist.tool_runs = <<>>
              /\ Len(hist.posts) = 1
              /\ hist.posts[1].model = m
              /\ \E i \in 1..Len(hist.posts[1].prompt) :
                    hist.posts[1].prompt[i] = fs[transcript_path]
              /\ hist.posts[1].stream = FALSE

C17_Witness ==
    /\ config.summarize_model = "Gemini"
    /\ hist.summarized = "ok"
    /\ hist.posts = <<>>
    /\ Len(hist.tool_runs) = 1

\* C18: in the external-tool strategy the tool is invoked exactly once with
\* the command [tool, -p, system prompt], the transcript text as standard
\* input and the encoding explicitly set to UTF-8, and its standard output is
\* written to the output path.
C18_ToolInvocation ==
    (SummarizeOver /\ hist.summarized \in {"ok", "tool_nonzero"}
        /\ config.summarize_model \in {"gemini", "Gemini"}) =>
        /\ Len(hist.tool_runs) = 1
        /\ hist.tool_runs[1].cmd = <<"gemini", "-p", "SYSTEM_PROMPT">>
        /\ hist.tool_runs[1].input = "text"
        /\ hist.tool_runs[1].encoding = "utf-8"
        /\ hist.summarized = "ok" =>
              (Exists(fs, summary_path) /\ fs[summary_path] = "summary")

StageOrder ==
    <<"check_dependencies", "load_config", "acquire", "workspace", "place",
      "transcribe", "summarize">>

\* C20: the orchestrator only moves forward: the stages started so far are an
\* initial part of the program order (each at most once, none out of order),
\* a stage is started only after its predecessor succeeded, and the
\* workspace directory exists before any file is written into it.
C20_ForwardOnly ==
    /\ Len(stages) <= Len(StageOrder)
    /\ \A i \in 1..Len(stages) : stages[i] = StageOrder[i]
    /\ Started("load_config") => "FFmpeg not found in PATH" \notin log
    /\ Started("acquire") => ConfigLoaded
    /\ Started("workspace") => (~AcquisitionFailed /\ audio_path # NoPath)
    /\ Started("place") => "ws" \in dirs
    /\ Started("transcribe") =>
          /\ "An unexpected error occurred" \notin log
          /\ final_audio_path.dir = "ws"
    /\ Started("summarize") => (~TranscriptionFailed /\ hist.transcribe = "returned")
    /\ \A q \in (DOMAIN fs) \cup hist.created : q.dir = "ws" => "ws" \in dirs

C20_Witness ==
    /\ Exited /\ exitCode = 0
    /\ stages = StageOrder
    /\ "ws" \in hist.madeDirs
    /\ hist.summarized = "ok"

\* C21: placement follows the input kind.  Right after placement the audio
\* file exists at exactly one location, inside the workspace: a download
\* was moved out of the temporary directory and that directory removed, a
\* local file outside the workspace was moved in and is gone from where it
\* was, a local file already inside the workspace stayed where it was; and
\* that location is the path handed to transcription.
C21_PlacementByInputKind ==
    /\ pc = "convert" =>
          /\ final_audio_path.dir = "ws"
          /\ {q \in DOMAIN fs : fs[q] = "audio"} = {final_audio_path}
          /\ args.input_kind = "url" =>
                /\ audio_path.dir = "tmp" /\ audio_path \in hist.moved
                /\ temp_download_dir \notin dirs
                /\ \A q \in DOMAIN fs : q.dir # temp_download_dir
          /\ (args.input_kind = "local" /\ args.input_dir = "ext") =>
                /\ ~Exists(fs, LocalInput(args))
                /\ LocalInput(args) \in hist.moved
          /\ (args.input_kind = "local" /\ args.input_dir = "ws") =>
                /\ final_audio_path = LocalInput(args)
                /\ hist.moved = {}
    /\ \A i \in 1..Len(hist.ffmpeg_runs) :
          /\ hist.ffmpeg_runs[i].input = final_audio_path
          /\ hist.ffmpeg_runs[i].input.dir = "ws"

C21_Witness ==
    /\ Len(hist.ffmpeg_runs) = 1
    /\ args.input_kind = "local" /\ args.input_dir = "ext"
    /\ LocalInput(args) \in hist.moved

\* C22: the temporary download directory made for a URL input does not
\* outlive the run: whenever the process has exited after making it (after
\* placement, a failed download, a failed move, or an interrupt) the
\* directory is gone.
C22_TempDirRemovedAtExit ==
    (Exited /\ temp_download_dir # "") =>
        /\ temp_download_dir \notin dirs
        /\ \A q \in DOMAIN fs : q.dir # temp_download_dir

\* C23: the transcoder is never asked to write over its own input: in every
\* ffmpeg invocation, made with the overwrite flag, the output path (the
\* input path with its extension replaced by .wav) differs from the input
\* path, also when the input already has the .wav extension.
C23_TranscoderOutputDiffersFromInput ==
    \A i \in 1..Len(hist.ffmpeg_runs) :
        /\ hist.ffmpeg_runs[i].overwrite = "-y"
        /\ hist.ffmpeg_runs[i].output = with_suffix(hist.ffmpeg_runs[i].input, "wav")
        /\ hist.ffmpeg_runs[i].output # hist.ffmpeg_runs[i].input

====
